---------------------------- MODULE Spec2Model ----------------------------
(***************************************************************************)
(* Model of lm_eval/tasks/ifeval_mt/instructions_util.py:                  *)
(*   split_into_sentences  - the heuristic sentence splitter, a cascade of *)
(*                           regular-expression substitutions;             *)
(*   generate_keywords     - random.sample over WORD_LIST;                 *)
(*   download_nltk_resources - the version check and the punkt_tab download *)
(*                           done when the module is imported;             *)
(*   count_sentences       - the calls of the cached tokenizer loader.     *)
(*                                                                         *)
(* A text is a sequence of characters; a character is a one-character      *)
(* string.  Two characters of the source that the TLA+ lexer does not      *)
(* accept are written by name: "a_uml" is U+00E4 (a with diaeresis) and    *)
(* "rdquo" is U+201D (right double quotation mark).                        *)
(*                                                                         *)
(* Inside split_into_sentences every character of the working text is a    *)
(* record [c, o]: c is the character and o the position of the character   *)
(* of the argument it stands for (0 for the padding and for "<stop>"; a    *)
(* "<prd>" has the position of the period it replaces).  Matching reads    *)
(* only c; o records which returned sentence each character of the         *)
(* argument went to.                                                       *)
(***************************************************************************)
EXTENDS Integers, Sequences, FiniteSets, TLC

VARIABLES
    text,          \* the argument of split_into_sentences
    pc,            \* "call" before the call, "done" after it returned
    work,          \* the working buffer right before text.split("<stop>")
    sentences,     \* the list split_into_sentences returned
    origins,       \* for each returned sentence, the positions of the
                   \* argument its characters stand for
    num_keywords,  \* the argument of generate_keywords
    kw_pc,         \* "call", "returned" or "raised"
    keywords,      \* the list generate_keywords returned
    nltk,          \* download_nltk_resources: the interpreter and the
                   \* installation it runs in, its position, what it did
    tokenizer      \* count_sentences: the cache of _get_sentence_tokenizer,
                   \* the loads done and each thread's position

vars == <<text, pc, work, sentences, origins, num_keywords, kw_pc, keywords,
          nltk, tokenizer>>

splitVars == <<text, pc, work, sentences, origins>>
kwVars    == <<num_keywords, kw_pc, keywords>>
nltkVars  == <<nltk, tokenizer>>

-----------------------------------------------------------------------------
(* Characters *)

\* Python's str whitespace (re \s on str patterns, str.strip()), ASCII part
\* that a TLA+ string can hold.
WS == {" ", "\t", "\n", "\r", "\f"}

UPPER == {"A", "B", "C", "D", "E", "F", "G", "H", "I", "J", "K", "L", "M",
          "N", "O", "P", "Q", "R", "S", "T", "U", "V", "W", "X", "Y", "Z"}

LOWER == {"a", "b", "c", "d", "e", "f", "g", "h", "i", "j", "k", "l", "m",
          "n", "o", "p", "q", "r", "s", "t", "u", "v", "w", "x", "y", "z"}

\* _ALPHABETS = "([A-Za-z])"
_ALPHABETS == UPPER \cup LOWER

\* _DIGITS = "([0-9])"
_DIGITS == {"0", "1", "2", "3", "4", "5", "6", "7", "8", "9"}

\* The two placeholder tokens, as the character sequences they are.
PRD  == <<"<", "p", "r", "d", ">">>
STOP == <<"<", "s", "t", "o", "p", ">">>

\* _PREFIXES = "(Herra|St|Rouva|Neiti|Dr)[.]" : the alternatives, in order.
_PREFIXES == << <<"H", "e", "r", "r", "a">>, <<"S", "t">>,
                <<"R", "o", "u", "v", "a">>, <<"N", "e", "i", "t", "i">>,
                <<"D", "r">> >>

\* _SUFFIXES = "(Inc|Ltd|Jr|Sr|Co|Oy)"
_SUFFIXES == << <<"I", "n", "c">>, <<"L", "t", "d">>, <<"J", "r">>,
                <<"S", "r">>, <<"C", "o">>, <<"O", "y">> >>

\* _WEBSITES = "[.](com|net|org|io|gov|edu|me|fi|eu)"
_WEBSITES == << <<"c", "o", "m">>, <<"n", "e", "t">>, <<"o", "r", "g">>,
                <<"i", "o">>, <<"g", "o", "v">>, <<"e", "d", "u">>,
                <<"m", "e">>, <<"f", "i">>, <<"e", "u">> >>

\* _STARTERS: the alternatives in order; ws is TRUE for the alternatives
\* that end in \s.
_STARTERS ==
    << [lit |-> <<"H", "e", "r", "r", "a">>, ws |-> FALSE],
       [lit |-> <<"R", "o", "u", "v", "a">>, ws |-> FALSE],
       [lit |-> <<"N", "e", "i", "t", "i">>, ws |-> FALSE],
       [lit |-> <<"T", "o", "h", "t", "o", "r", "i">>, ws |-> FALSE],
       [lit |-> <<"P", "r", "o", "f", "i">>, ws |-> FALSE],
       [lit |-> <<"K", "a", "p", "t", "e", "e", "n", "i">>, ws |-> FALSE],
       [lit |-> <<"K", "p", "t">>, ws |-> FALSE],
       [lit |-> <<"L", "u", "t", "t", "n">>, ws |-> FALSE],
       [lit |-> <<"H", "a_uml", "n">>, ws |-> TRUE],
       [lit |-> <<"S", "e">>, ws |-> TRUE],
       [lit |-> <<"H", "e">>, ws |-> TRUE],
       [lit |-> <<"H", "e", "i", "d", "a_uml", "n">>, ws |-> TRUE],
       [lit |-> <<"M", "e", "i", "d", "a_uml", "n">>, ws |-> FALSE],
       [lit |-> <<"M", "e">>, ws |-> TRUE],
       [lit |-> <<"M", "u", "t", "t", "a">>, ws |-> TRUE],
       [lit |-> <<"K", "u", "i", "t", "e", "n", "k", "i", "n">>, ws |-> TRUE],
       [lit |-> <<"T", "a_uml", "m", "a_uml">>, ws |-> TRUE],
       [lit |-> <<"M", "i", "s", "s", "a_uml", " ",
                  "t", "a", "h", "a", "n", "s", "a">>, ws |-> FALSE] >>

-----------------------------------------------------------------------------
(* Matching and substitution *)

Min(S) == CHOOSE x \in S : \A y \in S : x <= y

\* the text t as working text, and back
Tagged(t) == [i \in 1..Len(t) |-> [c |-> t[i], o |-> i]]
Chars(s) == [i \in 1..Len(s) |-> s[i].c]
Origins(s) == [i \in 1..Len(s) |-> s[i].o]

\* the characters w, all standing for position o
Mark(w, o) == [j \in 1..Len(w) |-> [c |-> w[j], o |-> o]]

\* the character at position i of s, "EOT" outside of s
At(s, i) == IF i >= 1 /\ i <= Len(s) THEN s[i].c ELSE "EOT"

\* the literal w occurs in s at position i
LitAt(w, s, i) ==
    /\ i >= 1
    /\ i + Len(w) - 1 <= Len(s)
    /\ \A j \in 1..Len(w) : s[i + j - 1].c = w[j]

Contains(s, w) == \E i \in 1..Len(s) : LitAt(w, s, i)

\* length of the match of _STARTERS at position i, 0 when there is none
StartersLen(s, i) ==
    LET K == {k \in 1..Len(_STARTERS) :
                  /\ LitAt(_STARTERS[k].lit, s, i)
                  /\ _STARTERS[k].ws =>
                         At(s, i + Len(_STARTERS[k].lit)) \in WS}
    IN IF K = {} THEN 0
       ELSE Len(_STARTERS[Min(K)].lit)
                + (IF _STARTERS[Min(K)].ws THEN 1 ELSE 0)


\* one "<prd>" for each of the n characters of s from position i on
RECURSIVE PrdRun(_, _, _)
PrdRun(s, i, n) ==
    IF n <= 0 THEN <<>> ELSE Mark(PRD, s[i].o) \o PrdRun(s, i + 1, n - 1)

\* number of consecutive periods of s from position i on
RECURSIVE RunLen(_, _)
RunLen(s, i) == IF At(s, i) = "." THEN 1 + RunLen(s, i + 1) ELSE 0

\* the first alternative of alts that occurs at position i and is followed
\* by the literal after; 0 when there is none
AltAt(alts, after, s, i) ==
    LET K == {k \in 1..Len(alts) : LitAt(alts[k] \o after, s, i)}
    IN IF K = {} THEN 0 ELSE Min(K)

(* One matcher M_x (length of the match at position i, 0 for none) and one
   replacement R_x (the text that replaces a match of length n at i) per
   re.sub of split_into_sentences. *)

\* M_prefixes with the last alternative, Dr, missing from the list
M_prefixes_short(s, i) ==
    LET k == AltAt(SubSeq(_PREFIXES, 1, Len(_PREFIXES) - 1), <<".">>, s, i)
    IN IF k = 0 THEN 0 ELSE Len(_PREFIXES[k]) + 1

\* re.sub(_PREFIXES, "\\1<prd>", text)
M_prefixes(s, i) ==
    LET k == AltAt(_PREFIXES, <<".">>, s, i)
    IN IF k = 0 THEN 0 ELSE Len(_PREFIXES[k]) + 1
R_prefixes(s, i, n) == SubSeq(s, i, i + n - 2) \o Mark(PRD, s[i + n - 1].o)

\* re.sub(_WEBSITES, "<prd>\\1", text)
M_websites(s, i) ==
    LET k == AltAt(_WEBSITES, <<>>, s, i + 1)
    IN IF At(s, i) = "." /\ k # 0 THEN 1 + Len(_WEBSITES[k]) ELSE 0
R_websites(s, i, n) == Mark(PRD, s[i].o) \o SubSeq(s, i + 1, i + n - 1)

\* re.sub(_DIGITS + "[.]" + _DIGITS, "\\1<prd>\\2", text)
M_digits(s, i) ==
    IF At(s, i) \in _DIGITS /\ At(s, i + 1) = "." /\ At(s, i + 2) \in _DIGITS
    THEN 3 ELSE 0
R_digits(s, i, n) == <<s[i]>> \o Mark(PRD, s[i + 1].o) \o <<s[i + 2]>>

\* R_multiple_dots with one marker for the whole run
R_multiple_dots_one(s, i, n) == Mark(PRD, s[i].o) \o Mark(STOP, 0)

\* re.sub(_MULTIPLE_DOTS, lambda match: "<prd>" * len(match.group(0)) + "<stop>", text)
\* _MULTIPLE_DOTS = r"\.{2,}" is greedy: it takes the whole run.
M_multiple_dots(s, i) == IF RunLen(s, i) >= 2 THEN RunLen(s, i) ELSE 0
R_multiple_dots(s, i, n) == PrdRun(s, i, n) \o Mark(STOP, 0)

\* re.sub(r"\s" + _ALPHABETS + "[.] ", " \\1<prd> ", text)
M_initial(s, i) ==
    IF /\ At(s, i) \in WS
       /\ At(s, i + 1) \in _ALPHABETS
       /\ At(s, i + 2) = "."
       /\ At(s, i + 3) = " "
    THEN 4 ELSE 0
R_initial(s, i, n) ==
    Mark(<<" ">>, s[i].o) \o <<s[i + 1]>> \o Mark(PRD, s[i + 2].o)
        \o <<s[i + 3]>>

\* _ACRONYMS = "([A-Z][.][A-Z][.](?:[A-Z][.])?)": the lengths the group can
\* take at position i, the longer (greedy) one first
AcronymLens(s, i) ==
    IF /\ At(s, i) \in UPPER /\ At(s, i + 1) = "."
       /\ At(s, i + 2) \in UPPER /\ At(s, i + 3) = "."
    THEN IF At(s, i + 4) \in UPPER /\ At(s, i + 5) = "."
         THEN <<6, 4>> ELSE <<4>>
    ELSE <<>>

\* length of group 1 in the match of _ACRONYMS + " " + _STARTERS at i, 0
\* when there is no match
AcronymStarterGroup(s, i) ==
    LET ls == AcronymLens(s, i)
        K == {k \in 1..Len(ls) :
                 At(s, i + ls[k]) = " " /\ StartersLen(s, i + ls[k] + 1) > 0}
    IN IF K = {} THEN 0 ELSE ls[Min(K)]

\* M_acronym_starter that never matches (the pass left out)
M_acronym_starter_off(s, i) == 0

\* re.sub(_ACRONYMS + " " + _STARTERS, "\\1<stop> \\2", text)
M_acronym_starter(s, i) ==
    LET a == AcronymStarterGroup(s, i)
    IN IF a = 0 THEN 0 ELSE a + 1 + StartersLen(s, i + a + 1)
R_acronym_starter(s, i, n) ==
    LET a == AcronymStarterGroup(s, i)
    IN SubSeq(s, i, i + a - 1) \o Mark(STOP, 0) \o SubSeq(s, i + a, i + n - 1)

\* re.sub(_ALPHABETS + "[.]" + _ALPHABETS + "[.]" + _ALPHABETS + "[.]",
\*        "\\1<prd>\\2<prd>\\3<prd>", text)
M_alpha3(s, i) ==
    IF /\ At(s, i) \in _ALPHABETS /\ At(s, i + 1) = "."
       /\ At(s, i + 2) \in _ALPHABETS /\ At(s, i + 3) = "."
       /\ At(s, i + 4) \in _ALPHABETS /\ At(s, i + 5) = "."
    THEN 6 ELSE 0
R_alpha3(s, i, n) ==
    <<s[i]>> \o Mark(PRD, s[i + 1].o) \o <<s[i + 2]>> \o Mark(PRD, s[i + 3].o)
        \o <<s[i + 4]>> \o Mark(PRD, s[i + 5].o)

\* re.sub(_ALPHABETS + "[.]" + _ALPHABETS + "[.]", "\\1<prd>\\2<prd>", text)
M_alpha2(s, i) ==
    IF /\ At(s, i) \in _ALPHABETS /\ At(s, i + 1) = "."
       /\ At(s, i + 2) \in _ALPHABETS /\ At(s, i + 3) = "."
    THEN 4 ELSE 0
R_alpha2(s, i, n) ==
    <<s[i]>> \o Mark(PRD, s[i + 1].o) \o <<s[i + 2]>> \o Mark(PRD, s[i + 3].o)

\* the suffix of the match of " " + _SUFFIXES + "[.] " + _STARTERS at i, 0
\* when there is no match
SuffixStarterAlt(s, i) ==
    LET K == {k \in 1..Len(_SUFFIXES) :
                 /\ LitAt(_SUFFIXES[k] \o <<".", " ">>, s, i + 1)
                 /\ StartersLen(s, i + Len(_SUFFIXES[k]) + 3) > 0}
    IN IF At(s, i) = " " /\ K # {} THEN Min(K) ELSE 0

\* re.sub(" " + _SUFFIXES + "[.] " + _STARTERS, " \\1<stop> \\2", text)
M_suffix_starter(s, i) ==
    LET k == SuffixStarterAlt(s, i)
    IN IF k = 0 THEN 0
       ELSE Len(_SUFFIXES[k]) + 3 + StartersLen(s, i + Len(_SUFFIXES[k]) + 3)
R_suffix_starter(s, i, n) ==
    LET l == Len(_SUFFIXES[SuffixStarterAlt(s, i)])
    IN SubSeq(s, i, i + l) \o Mark(STOP, 0) \o SubSeq(s, i + l + 2, i + n - 1)

\* re.sub(" " + _SUFFIXES + "[.]", " \\1<prd>", text)
M_suffix(s, i) ==
    LET k == AltAt(_SUFFIXES, <<".">>, s, i + 1)
    IN IF At(s, i) = " " /\ k # 0 THEN Len(_SUFFIXES[k]) + 2 ELSE 0
R_suffix(s, i, n) == SubSeq(s, i, i + n - 2) \o Mark(PRD, s[i + n - 1].o)

\* M_letter with the period left unescaped, so that it matches any character
M_letter_unescaped(s, i) ==
    IF At(s, i) = " " /\ At(s, i + 1) \in _ALPHABETS /\ i + 2 <= Len(s)
    THEN 3 ELSE 0

\* re.sub(" " + _ALPHABETS + "[.]", " \\1<prd>", text)
M_letter(s, i) ==
    IF At(s, i) = " " /\ At(s, i + 1) \in _ALPHABETS /\ At(s, i + 2) = "."
    THEN 3 ELSE 0
R_letter(s, i, n) == <<s[i], s[i + 1]>> \o Mark(PRD, s[i + 2].o)

\* str.replace(old, new): the replacement of the occurrence of old at
\* position i; from[j] is the character of the occurrence that new[j]
\* stands for (0 for none)
R_replace(new, from, s, i) ==
    [j \in 1..Len(new) |->
        [c |-> new[j],
         o |-> IF from[j] = 0 THEN 0 ELSE s[i + from[j] - 1].o]]

\* A pass is a record: [name |-> <one of the re.sub above>] or
\* [name |-> "replace", old |-> ..., new |-> ..., from |-> ...] for
\* str.replace(old, new).
M(p, s, i) ==
    CASE p.name = "replace"         -> IF LitAt(p.old, s, i) THEN Len(p.old) ELSE 0
      [] p.name = "prefixes"        -> M_prefixes(s, i)
      [] p.name = "websites"        -> M_websites(s, i)
      [] p.name = "digits"          -> M_digits(s, i)
      [] p.name = "multiple_dots"   -> M_multiple_dots(s, i)
      [] p.name = "initial"         -> M_initial(s, i)
      [] p.name = "acronym_starter" -> M_acronym_starter(s, i)
      [] p.name = "alpha3"          -> M_alpha3(s, i)
      [] p.name = "alpha2"          -> M_alpha2(s, i)
      [] p.name = "suffix_starter"  -> M_suffix_starter(s, i)
      [] p.name = "suffix"          -> M_suffix(s, i)
      [] p.name = "letter"          -> M_letter(s, i)

R(p, s, i, n) ==
    CASE p.name = "replace"         -> R_replace(p.new, p.from, s, i)
      [] p.name = "prefixes"        -> R_prefixes(s, i, n)
      [] p.name = "websites"        -> R_websites(s, i, n)
      [] p.name = "digits"          -> R_digits(s, i, n)
      [] p.name = "multiple_dots"   -> R_multiple_dots(s, i, n)
      [] p.name = "initial"         -> R_initial(s, i, n)
      [] p.name = "acronym_starter" -> R_acronym_starter(s, i, n)
      [] p.name = "alpha3"          -> R_alpha3(s, i, n)
      [] p.name = "alpha2"          -> R_alpha2(s, i, n)
      [] p.name = "suffix_starter"  -> R_suffix_starter(s, i, n)
      [] p.name = "suffix"          -> R_suffix(s, i, n)
      [] p.name = "letter"          -> R_letter(s, i, n)

\* re.sub and str.replace: scan left to right; a match at the current
\* position is replaced and the scan resumes after it (matches do not
\* overlap), otherwise the character is copied.  ScanAt is the step at
\* position i, n being the length of the match there.
ScanAt(p, s, i, n) ==
    IF n > 0 THEN [pos |-> i + n, out |-> R(p, s, i, n)]
    ELSE [pos |-> i + 1, out |-> <<s[i]>>]

ScanJoin(l, r) == [pos |-> r.pos, out |-> l.out \o r.out]

\* Scan does the scan for the positions lo..hi of s, entered at position
\* i >= lo, and returns the position the scan is at when it leaves lo..hi
\* and the output produced; the range is halved so that the evaluation
\* stays shallow.
RECURSIVE Scan(_, _, _, _, _)
ScanRight(p, s, lo, hi, l) == ScanJoin(l, Scan(p, s, lo, hi, l.pos))

Scan(p, s, lo, hi, i) ==
    IF i > hi THEN [pos |-> i, out |-> <<>>]
    ELSE IF lo = hi THEN ScanAt(p, s, i, M(p, s, i))
         ELSE ScanRight(p, s, (lo + hi) \div 2 + 1, hi,
                        Scan(p, s, lo, (lo + hi) \div 2, i))

ReSub(name, s) == Scan([name |-> name], s, 1, Len(s), 1).out

\* str.replace(old, new)
Replace(s, old, new, from) ==
    Scan([name |-> "replace", old |-> old, new |-> new, from |-> from],
         s, 1, Len(s), 1).out

\* str.split(sep): the pieces between the non-overlapping occurrences of
\* sep, found left to right.  A scan result holds the pieces of the
\* positions scanned, the last of them still open.
SplitJoin(l, r) ==
    [pos    |-> r.pos,
     pieces |-> SubSeq(l.pieces, 1, Len(l.pieces) - 1)
                \o << l.pieces[Len(l.pieces)] \o Head(r.pieces) >>
                \o Tail(r.pieces)]

RECURSIVE SplitScan(_, _, _, _, _)
SplitRight(s, sep, lo, hi, l) == SplitJoin(l, SplitScan(s, sep, lo, hi, l.pos))

SplitScan(s, sep, lo, hi, i) ==
    IF i > hi THEN [pos |-> i, pieces |-> << <<>> >>]
    ELSE IF lo = hi
         THEN IF LitAt(sep, s, i)
              THEN [pos |-> i + Len(sep), pieces |-> << <<>>, <<>> >>]
              ELSE [pos |-> i + 1, pieces |-> << <<s[i]>> >>]
         ELSE SplitRight(s, sep, (lo + hi) \div 2 + 1, hi,
                         SplitScan(s, sep, lo, (lo + hi) \div 2, i))

StrSplit(s, sep) == SplitScan(s, sep, 1, Len(s), 1).pieces

\* str.strip()
Strip(s) ==
    LET N == {i \in 1..Len(s) : s[i].c \notin WS}
    IN IF N = {} THEN <<>>
       ELSE SubSeq(s, Min(N), CHOOSE i \in N : \A j \in N : j <= i)

-----------------------------------------------------------------------------
(* split_into_sentences *)

PH_D == <<"P", "h", ".", "D">>

\* text = " " + text + "  "
Pad(t) == Mark(<<" ">>, 0) \o t \o Mark(<<" ", " ">>, 0)

\* if "Ph.D" in text: text = text.replace("Ph.D.", "Ph<prd>D<prd>")
ProtectPhD(t) ==
    IF Contains(t, PH_D)
    THEN Replace(t, PH_D \o <<".">>, <<"P", "h">> \o PRD \o <<"D">> \o PRD,
                 <<1, 2, 3, 3, 3, 3, 3, 4, 5, 5, 5, 5, 5>>)
    ELSE t

\* text = " " + text + "  " ... text = re.sub(" " + _ALPHABETS + "[.]", ...):
\* the padding, the newline replacement and the protection passes, in the
\* order of the source (the innermost is the first)
Protect(t) ==
    ReSub("letter",
     ReSub("suffix",
      ReSub("suffix_starter",
       ReSub("alpha2",
        ReSub("alpha3",
         ReSub("acronym_starter",
          ReSub("initial",
           ProtectPhD(
            ReSub("multiple_dots",
             ReSub("digits",
              ReSub("websites",
               ReSub("prefixes",
                Replace(Pad(t), <<"\n">>, <<" ">>, <<1>>)))))))))))))

\* if c in text: text = text.replace(old, new), for the replacements that
\* swap two characters
SwapIf(t, c, old, new) ==
    IF Contains(t, <<c>>) THEN Replace(t, old, new, <<2, 1>>) ELSE t

\* if "rdquo" in text: ... if "?" in text: ... : the terminator that
\* precedes a closing quote is moved behind it
SwapQuotes(t) ==
    SwapIf(
     SwapIf(
      SwapIf(
       SwapIf(t, "rdquo", <<".", "rdquo">>, <<"rdquo", ".">>),
       "\"", <<".", "\"">>, <<"\"", ".">>),
      "!", <<"!", "\"">>, <<"\"", "!">>),
     "?", <<"?", "\"">>, <<"\"", "?">>)

\* MarkStops without the pass for "!"
MarkStops_no_bang(t) ==
    Replace(Replace(t, <<".">>, <<".">> \o STOP, <<1, 0, 0, 0, 0, 0, 0>>),
            <<"?">>, <<"?">> \o STOP, <<1, 0, 0, 0, 0, 0, 0>>)

\* text = text.replace(".", ".<stop>") ... text.replace("!", "!<stop>")
MarkStops(t) ==
    Replace(Replace(Replace(t, <<".">>, <<".">> \o STOP,
                            <<1, 0, 0, 0, 0, 0, 0>>),
                    <<"?">>, <<"?">> \o STOP, <<1, 0, 0, 0, 0, 0, 0>>),
            <<"!">>, <<"!">> \o STOP, <<1, 0, 0, 0, 0, 0, 0>>)

\* Restore that deletes the protected-period marker
Restore_deleted(t) == Replace(t, PRD, <<>>, <<>>)

\* Restore that leaves the protected-period marker in the text
Restore_skipped(t) == t

\* text = text.replace("<prd>", ".")
Restore(t) == Replace(t, PRD, <<".">>, <<1>>)

\* the working text that split_into_sentences splits
WorkingText(t) == Restore(MarkStops(SwapQuotes(Protect(Tagged(t)))))

\* DropLastEmpty without the removal of the last, empty, piece
DropLastEmpty_kept(ss) == ss

\* if sentences and not sentences[-1]: sentences = sentences[:-1]
DropLastEmpty(ss) ==
    IF Len(ss) > 0 /\ ss[Len(ss)] = <<>> THEN SubSeq(ss, 1, Len(ss) - 1)
    ELSE ss

NonEmpty(piece) == piece # <<>>

StripAll_filtered(pieces) ==
    SelectSeq([k \in 1..Len(pieces) |-> Strip(pieces[k])], NonEmpty)

\* sentences = [s.strip() for s in sentences]
StripAll(pieces) == [k \in 1..Len(pieces) |-> Strip(pieces[k])]

\* sentences = text.split("<stop>"); sentences = [s.strip() for s in
\* sentences]; drop the last one when it is empty
Sentences(w) == DropLastEmpty(StripAll(StrSplit(w, STOP)))

\* the list of strings split_into_sentences(t) returns
CharsOfAll(ss) == [k \in 1..Len(ss) |-> Chars(ss[k])]
OriginsOfAll(ss) == [k \in 1..Len(ss) |-> Origins(ss[k])]

split_into_sentences(t) == CharsOfAll(Sentences(WorkingText(t)))

-----------------------------------------------------------------------------
(* The calls *)

\* return sentences
Return(ss) ==
    /\ sentences' = CharsOfAll(ss)
    /\ origins' = OriginsOfAll(ss)
    /\ pc' = "done"

\* the split of the working text w, and the return
SplitAndReturn(w) ==
    /\ work' = Chars(w)
    /\ Return(Sentences(w))

\* sentences = split_into_sentences(text)
SplitIntoSentences ==
    /\ pc = "call"
    /\ SplitAndReturn(WorkingText(text))
    /\ UNCHANGED <<text, num_keywords, kw_pc, keywords>>
    /\ UNCHANGED nltkVars

\* the texts made of at most n of the tokens T, concatenated
RECURSIVE Inputs(_, _)
Inputs(T, n) ==
    IF n = 0 THEN {<<>>}
    ELSE LET P == Inputs(T, n - 1)
         IN P \cup {p \o t : p \in P, t \in T}

\* the state before a call of split_into_sentences on one of the texts I
InitSplit(I) ==
    /\ text \in I
    /\ pc = "call"
    /\ work = <<>>
    /\ sentences = <<>>
    /\ origins = <<>>
    /\ num_keywords = 0
    /\ kw_pc = "idle"
    /\ keywords = <<>>
    /\ nltk = <<>>
    /\ tokenizer = <<>>

NextSplit == SplitIntoSentences

-----------------------------------------------------------------------------
(* Vocabulary of the properties *)

NonWs(s) == SelectSeq(s, LAMBDA c : c \notin WS)

\* the returned sentences, one after the other
RECURSIVE Concat(_)
Concat(ss) == IF ss = <<>> THEN <<>> ELSE Head(ss) \o Concat(Tail(ss))

Range(f) == {f[x] : x \in DOMAIN f}

\* the characters at positions i and j of the input are returned in the
\* same sentence
SameSentence(i, j) ==
    \E k \in 1..Len(origins) : i \in Range(origins[k]) /\ j \in Range(origins[k])

\* every returned character stands for a character of the input: the same
\* character, a space for a whitespace character, a period for the "<" of
\* a "<prd>" of the input, or none
OriginsFaithful ==
    \A k \in 1..Len(sentences) :
        /\ Len(origins[k]) = Len(sentences[k])
        /\ \A j \in 1..Len(sentences[k]) :
               \/ origins[k][j] = 0
               \/ /\ origins[k][j] \in 1..Len(text)
                  /\ \/ text[origins[k][j]] = sentences[k][j]
                     \/ text[origins[k][j]] \in WS /\ sentences[k][j] = " "
                     \/ text[origins[k][j]] = "<" /\ sentences[k][j] = "."

\* the occurrences of the literal w in the text t, and the character of t
\* at position i ("EOT" outside of t)
Occurs(w, t, i) == LitAt(w, Tagged(t), i)
CharAt(t, i) == IF i >= 1 /\ i <= Len(t) THEN t[i] ELSE "EOT"
Has(t, w) == \E i \in 1..Len(t) : Occurs(w, t, i)

\* t without its leading and trailing whitespace
Trimmed(t) == Chars(Strip(Tagged(t)))

MarkerFree(t) == ~Has(t, PRD) /\ ~Has(t, STOP)

NoTerminator(t) == \A i \in 1..Len(t) : t[i] \notin {".", "!", "?"}

Blank(t) == \A i \in 1..Len(t) : t[i] \in WS

-----------------------------------------------------------------------------
(* Texts without a terminator; the empty text *)

MaxPlainTokens == 4

PlainTokens ==
    { <<"a">>, <<"B">>, <<" ">>, <<"\n">>, <<"\t">>, <<".">>, PRD, STOP }

InitPlain == InitSplit(Inputs(PlainTokens, MaxPlainTokens))

SpecPlain == InitPlain /\ [][NextSplit]_vars

\* C1 as stated: a text without '.', '!' and '?' comes back as one sentence,
\* the text stripped of its leading and trailing whitespace.
OneSentenceAsStated ==
    (pc = "done" /\ NoTerminator(text))
        => sentences = << Trimmed(text) >>

\* C1, amended: a text without '.', '!', '?' and without the two markers
\* that has a non-whitespace character comes back as one sentence, the
\* stripped text with every newline replaced by a space; when it has no
\* non-whitespace character nothing comes back.
OneSentence ==
    (pc = "done" /\ NoTerminator(text) /\ MarkerFree(text))
        => sentences =
               IF Blank(text) THEN <<>>
               ELSE << Trimmed([i \in 1..Len(text) |->
                                   IF text[i] = "\n" THEN " " ELSE text[i]]) >>

OneSentenceWitness ==
    /\ pc = "done"
    /\ NoTerminator(text) /\ MarkerFree(text)
    /\ Len(text) = 4 /\ text[2] = "\n" /\ text[1] = "a" /\ text[3] = "B"
    /\ Len(sentences) = 1

\* C8: the empty text gives no sentence at all.
EmptyTextNoSentence ==
    (pc = "done" /\ text = <<>>) => sentences = <<>>

EmptyTextWitness == pc = "done" /\ text = <<>> /\ work = <<" ", " ", " ">>

-----------------------------------------------------------------------------
(* Decimal numbers *)

MaxDecimalTokens == 5

DecimalTokens == { <<"1">>, <<"2">>, <<".">>, <<"a">>, <<" ">> }

InitDecimal == InitSplit(Inputs(DecimalTokens, MaxDecimalTokens))

SpecDecimal == InitDecimal /\ [][NextSplit]_vars

\* the periods of the input that stand between two digits
DecimalPeriods ==
    {i \in 2..(Len(text) - 1) :
        text[i] = "." /\ text[i - 1] \in _DIGITS /\ text[i + 1] \in _DIGITS}

\* C2: in a marker-free text a period between two digits is no sentence
\* boundary: the digit before it and the digit after it are returned in
\* the same sentence.
DecimalNonSplit ==
    (pc = "done" /\ MarkerFree(text))
        => \A i \in DecimalPeriods : SameSentence(i - 1, i + 1)

-----------------------------------------------------------------------------
(* Round trip; the suffix words *)

MaxSuffixTokens == 5

SuffixTokens ==
    { <<"O", "y">>, <<"I", "n", "c">>, <<".">>, <<" ">>, <<"S", "e">>,
      <<"H", "e", "r", "r", "a">>, <<"a">> }

InitSuffix == InitSplit(Inputs(SuffixTokens, MaxSuffixTokens))

SpecSuffix == InitSuffix /\ [][NextSplit]_vars

\* ss joined with single spaces
RECURSIVE Join(_)
Join(ss) ==
    IF ss = <<>> THEN <<>>
    ELSE IF Len(ss) = 1 THEN ss[1]
         ELSE ss[1] \o <<" ">> \o Join(Tail(ss))

\* C3: for a marker-free text, the returned sentences joined with single
\* spaces are the input up to whitespace: their non-whitespace characters,
\* read in order, are exactly those of the input (none lost, added or
\* reordered).
RoundTrip ==
    (pc = "done" /\ MarkerFree(text))
        => NonWs(Join(sentences)) = NonWs(text)

-----------------------------------------------------------------------------
(* Texts that hold pieces of the markers *)

MaxMarkerTokens == 5

MarkerTokens ==
    { <<"<", "p", "r">>, <<"d", ">">>, <<"<", "s", "t">>, <<"o", "p", ">">>,
      <<".">>, <<"D", "r">>, <<" ">> }

InitMarker == InitSplit(Inputs(MarkerTokens, MaxMarkerTokens))

SpecMarker == InitMarker /\ [][NextSplit]_vars

\* C9: whatever the input, no returned sentence contains "<prd>" or
\* "<stop>".
MarkersNeverEscape ==
    pc = "done"
        => \A k \in 1..Len(sentences) :
               ~Has(sentences[k], PRD) /\ ~Has(sentences[k], STOP)

MarkersNeverEscapeWitness ==
    /\ pc = "done"
    /\ Has(text, PRD)
    /\ Has(text, STOP)
    /\ Has(work, <<".">>)
    /\ Len(sentences) = 2

-----------------------------------------------------------------------------
(* Honorific prefixes *)

MaxHonorificTokens == 4

HonorificTokens ==
    { <<"D", "r">>, <<"S", "t">>, <<".">>, <<" ">>, <<"a">>, <<"A">>,
      <<"c", "o", "m">>, <<"\"">>, <<"1">>, <<"H", "e", " ">> }

InitHonorific == InitSplit(Inputs(HonorificTokens, MaxHonorificTokens))

SpecHonorific == InitHonorific /\ [][NextSplit]_vars

\* the periods of the input that stand right after a listed prefix
PrefixPeriods ==
    {i \in 1..Len(text) :
        /\ text[i] = "."
        /\ \E k \in 1..Len(_PREFIXES) :
               Occurs(_PREFIXES[k], text, i - Len(_PREFIXES[k]))}

\* the non-whitespace positions of the input after position i
After(i) == {j \in (i + 1)..Len(text) : text[j] \notin WS}

\* C5: in a marker-free text the period right after a listed honorific
\* prefix makes no boundary: the prefix and the text right after the
\* period are returned in the same sentence.
HonorificNonSplit ==
    (pc = "done" /\ MarkerFree(text))
        => \A i \in PrefixPeriods :
               After(i) # {} => SameSentence(i - 1, Min(After(i)))

HonorificNonSplitWitness ==
    /\ pc = "done"
    /\ text = <<"D", "r", ".", " ", "A">>
    /\ sentences = << text >>

-----------------------------------------------------------------------------
(* Ellipses *)

MaxEllipsisTokens == 4

EllipsisTokens ==
    { <<".">>, <<".", ".">>, <<"a">>, <<" ">>, <<"m", "e">>, <<"D", "r">>,
      <<"!">>, <<"1">>, <<"\"">>, <<"rdquo">> }

InitEllipsis == InitSplit(Inputs(EllipsisTokens, MaxEllipsisTokens))

SpecEllipsis == InitEllipsis /\ [][NextSplit]_vars

\* the maximal runs of two or more periods of the input, as <<first, last>>
PeriodRuns ==
    {r \in (1..Len(text)) \X (1..Len(text)) :
        /\ r[1] < r[2]
        /\ \A j \in r[1]..r[2] : text[j] = "."
        /\ CharAt(text, r[1] - 1) # "."
        /\ CharAt(text, r[2] + 1) # "."}

\* the run r is returned whole, as the end of a sentence: some returned
\* sentence ends with the periods of r, in order
RunEndsSentence(r) ==
    \E k \in 1..Len(sentences) :
        LET n == r[2] - r[1] + 1
            m == Len(sentences[k])
        IN /\ m >= n
           /\ \A j \in 1..n :
                  /\ sentences[k][m - n + j] = "."
                  /\ origins[k][m - n + j] = r[1] + j - 1

\* C7 as stated: in a marker-free text every maximal run of n >= 2 periods
\* is returned as n periods in one sentence, with a sentence boundary right
\* after the last of them and none inside the run.
EllipsisAsStated ==
    (pc = "done" /\ MarkerFree(text))
        => \A r \in PeriodRuns : RunEndsSentence(r)

\* a website suffix stands right after position i of the input
WebsiteAfter(i) ==
    \E k \in 1..Len(_WEBSITES) : Occurs(_WEBSITES[k], text, i + 1)

\* the run r has two periods, the first of which the prefix pass protects
\* and the second of which is moved behind the quote that follows it
PrefixRunBeforeQuote(r) ==
    /\ r[2] = r[1] + 1
    /\ r[1] \in PrefixPeriods
    /\ CharAt(text, r[2] + 1) \in {"\"", "rdquo"}

\* C7, amended: the same for every maximal run of n >= 2 periods that is
\* not directly followed by one of the website suffixes com, net, org, io,
\* gov, edu, me, fi, eu and is not a run of two periods between a listed
\* honorific prefix and a double quote (straight or curly).
Ellipsis ==
    (pc = "done" /\ MarkerFree(text))
        => \A r \in PeriodRuns :
               (~WebsiteAfter(r[2]) /\ ~PrefixRunBeforeQuote(r))
                   => RunEndsSentence(r)

EllipsisWitness ==
    /\ pc = "done"
    /\ text = <<"a", ".", ".", "a", "!">>
    /\ sentences = << <<"a", ".", ".">>, <<"a", "!">> >>

-----------------------------------------------------------------------------
(* Plain sentences *)

MaxSentenceTokens == 5

SentenceTokens ==
    { <<"a", "b">>, <<"X", "S", "t">>, <<" ">>, <<".">>, <<"!">>, <<"?">> }

InitSentence == InitSplit(Inputs(SentenceTokens, MaxSentenceTokens))

SpecSentence == InitSentence /\ [][NextSplit]_vars

TERMINATORS == {".", "!", "?"}

\* the words of t, as <<first, last>>: the maximal runs of letters
Words(t) ==
    {w \in (1..Len(t)) \X (1..Len(t)) :
        /\ w[1] <= w[2]
        /\ \A j \in w[1]..w[2] : t[j] \in _ALPHABETS
        /\ CharAt(t, w[1] - 1) \notin _ALPHABETS
        /\ CharAt(t, w[2] + 1) \notin _ALPHABETS}

Listed(alts) == {alts[k] : k \in 1..Len(alts)}

\* t is k >= 1 sentences separated by single spaces, each of them words of
\* two or more letters separated by single spaces and one terminator right
\* after the last word; no word is a listed prefix or a listed suffix
PlainSentences(t) ==
    /\ Len(t) > 0
    /\ t[1] \in _ALPHABETS
    /\ t[Len(t)] \in TERMINATORS
    /\ \A i \in 1..Len(t) :
           /\ t[i] \in _ALPHABETS \cup TERMINATORS \cup {" "}
           /\ t[i] = " " => /\ CharAt(t, i - 1) \in _ALPHABETS \cup TERMINATORS
                            /\ CharAt(t, i + 1) \in _ALPHABETS
           /\ t[i] \in TERMINATORS => /\ CharAt(t, i - 1) \in _ALPHABETS
                                      /\ CharAt(t, i + 1) \in {" ", "EOT"}
    /\ \A w \in Words(t) :
           /\ w[2] > w[1]
           /\ SubSeq(t, w[1], w[2]) \notin Listed(_PREFIXES) \cup Listed(_SUFFIXES)

\* the sentences of such a text: each runs from the first letter after the
\* previous terminator to its own terminator
TerminatorsOf(t) == {i \in 1..Len(t) : t[i] \in TERMINATORS}

SentenceEndingAt(t, e) ==
    LET before == {i \in TerminatorsOf(t) : i < e}
    IN IF before = {} THEN SubSeq(t, 1, e)
       ELSE SubSeq(t, (CHOOSE i \in before : \A j \in before : j <= i) + 2, e)

PlainSentencesOf(t) ==
    LET E == TerminatorsOf(t)
    IN [n \in 1..Cardinality(E) |->
           SentenceEndingAt(t, CHOOSE e \in E :
                                  Cardinality({i \in E : i < e}) = n - 1)]

\* C4 as stated: a text of k plain sentences comes back as these k
\* sentences, in order, each with its terminator.
PlainSplitAsStated ==
    (pc = "done" /\ PlainSentences(text))
        => sentences = PlainSentencesOf(text)

\* a word of t ends with a listed honorific prefix
WordEndsWithPrefix(t) ==
    \E w \in Words(t) : \E k \in 1..Len(_PREFIXES) :
        Occurs(_PREFIXES[k], t, w[2] - Len(_PREFIXES[k]) + 1)

\* C4, amended: the same when, in addition, no word ends with a listed
\* honorific prefix (the prefix pattern is not anchored at the start of a
\* word).
PlainSplit ==
    (pc = "done" /\ PlainSentences(text) /\ ~WordEndsWithPrefix(text))
        => sentences = PlainSentencesOf(text)

PlainSplitWitness ==
    /\ pc = "done"
    /\ text = <<"a", "b", "!", " ", "a", "b", "?">>
    /\ Len(sentences) = 2

-----------------------------------------------------------------------------
(* Acronyms before a sentence starter *)

MaxAcronymTokens == 4

AcronymTokens ==
    { <<"A", ".", "B", ".">>, <<"C", ".">>, <<" ", "H", "e">>,
      <<" ", "H", "e", "r", "r", "a">>, <<" ">>, <<"x">>, <<".">>,
      <<"P", "h", ".", "D", ".">> }

InitAcronym == InitSplit(Inputs(AcronymTokens, MaxAcronymTokens))

SpecAcronym == InitAcronym /\ [][NextSplit]_vars

\* a dotted acronym of two (a = 4) or three (a = 6) capital letters stands
\* at position i of the input
AcronymAt(i, a) ==
    /\ a \in {4, 6}
    /\ i + a - 1 <= Len(text)
    /\ \A j \in 0..(a - 1) :
           IF j % 2 = 0 THEN text[i + j] \in UPPER ELSE text[i + j] = "."

\* a word of the starter list stands at position j of the input, and no
\* letter follows it
StarterWordAt(j) ==
    \E k \in 1..Len(_STARTERS) :
        /\ Occurs(_STARTERS[k].lit, text, j)
        /\ CharAt(text, j + Len(_STARTERS[k].lit)) \notin _ALPHABETS \cup {"a_uml"}

\* the starter pattern matches at position j of the input: the word, and
\* for the alternatives written with \s a whitespace character (or the end
\* of the text, which is padded with spaces) after it
StarterAt(j) ==
    \E k \in 1..Len(_STARTERS) :
        /\ Occurs(_STARTERS[k].lit, text, j)
        /\ _STARTERS[k].ws =>
               CharAt(text, j + Len(_STARTERS[k].lit)) \in WS \cup {"EOT"}

\* C6 as stated: an acronym followed by one space and a starter word is
\* returned in another sentence than the starter word, and a text that is
\* only the acronym and the starter clause comes back as two sentences.
AcronymStarterAsStated ==
    (pc = "done" /\ MarkerFree(text))
        => \A i \in 1..Len(text) : \A a \in {4, 6} :
               (AcronymAt(i, a) /\ CharAt(text, i + a) = " "
                    /\ StarterWordAt(i + a + 1))
                   => /\ ~SameSentence(i + a - 1, i + a + 1)
                      /\ (i = 1 /\ NoTerminator(SubSeq(text, a + 1, Len(text))))
                             => Len(sentences) = 2

\* C6, amended: the same when the starter pattern matches, that is, when
\* the starter word is one of Han, Se, He, Heidan, Me, Mutta, Kuitenkin,
\* Tama (written with \s in _STARTERS) it is followed by a whitespace
\* character or the end of the text.
AcronymStarter ==
    (pc = "done" /\ MarkerFree(text))
        => \A i \in 1..Len(text) : \A a \in {4, 6} :
               (AcronymAt(i, a) /\ CharAt(text, i + a) = " "
                    /\ StarterAt(i + a + 1))
                   => /\ ~SameSentence(i + a - 1, i + a + 1)
                      /\ (i = 1 /\ NoTerminator(SubSeq(text, a + 1, Len(text))))
                             => Len(sentences) = 2

AcronymStarterWitness ==
    /\ pc = "done"
    /\ text = <<"A", ".", "B", ".", " ", "H", "e", " ", "x">>
    /\ sentences = << <<"A", ".", "B", ".">>, <<"H", "e", " ", "x">> >>

-----------------------------------------------------------------------------
(* generate_keywords *)

\* WORD_LIST, in the order of the source; "[a_uml]" and "[o_uml]" stand for
\* the letters U+00E4 and U+00F6.
WORD_LIST ==
    << "l[a_uml]nsimainen", "tuomita", "signaali", "kaatopaikka", "paikalla",
       "vastap[a_uml][a_uml]t[a_uml]", "pohja", "peruna", "hallinto",
       "ty[o_uml]skentelee", "tervetuloa", "aamu", "hyv[a_uml]", "virasto",
       "ensisijainen", "toivoa", "vastuuta", "paina", "ongelma", "presidentti",
       "varastaa", "harjata", "lukea", "tyyppi", "ly[o_uml]d[a_uml]",
       "kouluttaja", "kasvu", "lukko", "luuta", "tapaus",
       "yht[a_uml]l[a_uml]inen", "mukava", "alueella", "korvaaminen",
       "suorituskyky[a_uml]", "kaveri", "k[a_uml]vell[a_uml]",
       "l[a_uml][a_uml]ke", "elokuva", "asia", "rock", "napauta", "kokonais-",
       "kilpailua", "helppous", "etel[a_uml][a_uml]n", "perustaminen",
       "ker[a_uml]t[a_uml]", "pys[a_uml]k[o_uml]inti", "maailman-", "paljon",
       "hengitys", "v[a_uml]itt[a_uml][a_uml]", "alkoholia", "kauppaa",
       "rakas", "kohokohta", "katu", "asia", "p[a_uml][a_uml]t[o_uml]s",
       "sotku", "sopimus", "studio", "valmentaja", "auttaa", "aivot", "siipi",
       "tyyli", "yksityinen", "alkuun", "ruskea", "jalka", "ostaa",
       "menettely[a_uml]", "menetelm[a_uml]", "nopeus", "korkea", "yritys",
       "arvokasta", "piirakka", "analyytikko", "istunto", "kuvio", "piiri",
       "ilo", "p[a_uml]iv[a_uml]llinen", "uima", "vitsi", "tilata", "levy",
       "osasto", "moottori", "solu", "viett[a_uml][a_uml]", "kaappi", "ero",
       "tehoa", "tutkimus", "moottori", "hevonen", "ulottuvuus", "maksaa",
       "varvas", "k[a_uml]yr[a_uml]", "kirjallisuus", "vaivautua", "palo",
       "mahdollisuus", "keskustelu", "toimintaa", "kulku", "Hei", "sykli",
       "tausta", "hiljainen", "kirjoittaja", "vaikutus",
       "n[a_uml]yttelij[a_uml]", "sivu", "polkupy[o_uml]r[a_uml]", "virhe",
       "kurkku", "hy[o_uml]kk[a_uml]ys", "merkki", "puhelin", "teet[a_uml]",
       "lis[a_uml]t[a_uml]", "tulokset", "tiedosto", "erityisi[a_uml]",
       "tarkastaja", "sis[a_uml]inen", "potentiaalia",
       "henkil[o_uml]st[o_uml][a_uml]", "rakentaminen", "ty[o_uml]nantaja",
       "kenk[a_uml]", "k[a_uml]si", "suunta", "puutarha", "ostaa",
       "haastatella", "opiskella", "tunnustaminen", "j[a_uml]sen",
       "henkist[a_uml]", "uuni", "voileip[a_uml]", "outo", "matkustaja",
       "erityisesti", "vastaus", "reaktio", "koko", "vaihtelua", "a",
       "peruuttaa", "karkkia", "poistu", "vieras", "kunto",
       "lent[a_uml][a_uml]", "hinta", "heikkous", "muuntaa", "hotelli",
       "hienoa", "suuhun", "mieleen", "laulu", "sokeria", "ep[a_uml]ilty",
       "puhelin", "korva", "katto", "maali", "j[a_uml][a_uml]kaappi",
       "organisaatio", "tuomaristo", "palkita", "suunnittelu",
       "p[a_uml]iv[a_uml]", "hallinta", "miehist[o_uml]", "baari", "tie",
       "kuvaus", "juhla", "pisteet", "merkki", "kirje", "suihku", "ehdotus",
       "sir", "onnea", "kansallinen", "edistyst[a_uml]", "sali", "aivohalvaus",
       "teoria", "tarjous", "tarina", "verottaa",
       "m[a_uml][a_uml]ritelm[a_uml]", "historia", "ratsastaa",
       "keskikokoinen", "avaaminen", "lasi", "Hissi", "vatsa", "kysymys",
       "kyky", "johtava", "kyl[a_uml]", "tietokone", "kaupunki", "suuri",
       "luottamusta", "kynttil[a_uml]", "pappi", "suositus", "kohta",
       "tarpeellista", "kehon", "vastaanotto", "salaisuus", "kauhu", "melua",
       "kulttuuri", "Varoitus", "vett[a_uml]", "py[o_uml]rist[a_uml][a_uml]",
       "ruokavalio", "kukka", "linja-auto", "kova", "lupa", "viikko", "kehote",
       "yhteys", "v[a_uml][a_uml]rink[a_uml]ytt[o_uml]", "korkeus",
       "tallentaa", "nurkkaan", "rajaa", "korostaa", "ajaa", "stop",
       "repi[a_uml]", "ateria", "kuunnella", "h[a_uml]mmennyst[a_uml]",
       "tytt[o_uml]yst[a_uml]v[a_uml]", "el[a_uml]v[a_uml]t", "suhde",
       "merkitys", "suunnitelma", "luova", "tunnelmaa", "syytt[a_uml][a_uml]",
       "kutsua", "asuminen", "paperia", "juoda", "rullaa", "hopea",
       "humalassa", "ik[a_uml]", "vahingoittaa", "savu",
       "ymp[a_uml]rist[o_uml][o_uml]n", "pakata",
       "s[a_uml][a_uml]st[o_uml]j[a_uml]", "vaikutus", "turisti", "sade",
       "l[a_uml]hett[a_uml][a_uml]", "merkki", "iso[a_uml]iti", "juosta",
       "voittoa", "ty[o_uml]nn[a_uml]", "virkailija", "lopullinen",
       "viini[a_uml]", "uida", "tauko", "tavaraa", "laulaja", "hautajaiset",
       "keskim[a_uml][a_uml]rin", "l[a_uml]hde", "n[a_uml]kym[a_uml]",
       "perinne", "henkil[o_uml]kohtainen", "lumi", "kukaan", "et[a_uml]isyys",
       "j[a_uml]rjestell[a_uml]", "herkk[a_uml]", "el[a_uml]in",
       "p[a_uml][a_uml]aine", "neuvottelu", "napsauta", "mielialaa",
       "ajanjaksoa", "saapuminen", "ilmaisua", "loma", "toistaa", "p[o_uml]ly",
       "vaatekaappi", "kulta", "huono", "purjehtia", "yhdistelm[a_uml]",
       "vaatteet", "painotus", "velvollisuus", "musta", "askel", "kouluun",
       "hyp[a_uml]t[a_uml]", "asiakirja", "ammattilainen", "huuli",
       "kemiallinen", "edess[a_uml]", "her[a_uml]t[a_uml]", "samalla kun",
       "sis[a_uml]ll[a_uml]", "katsella", "rivi", "aihe", "rangaistus",
       "saldo", "mahdollista", "aikuinen", "sivuun", "n[a_uml]yte", "valittaa",
       "h[a_uml][a_uml]t", "syvyys", "kuningas", "my[o_uml]nt[a_uml][a_uml]",
       "vaimo", "isku", "sivusto", "leiri", "musiikkia", "turvallinen",
       "lahja", "vika", "arvaus", "toimia", "h[a_uml]pe[a_uml]", "draama",
       "p[a_uml][a_uml]omaa", "tentti", "tyhm[a_uml]", "tallentaa",
       "[a_uml][a_uml]ni", "swing", "romaani", "minimi", "suhde", "kone",
       "muoto", "johtaa", "toimintaa", "palkkaa", "pilvi", "asia", "osuma",
       "luku", "vaiheessa", "m[a_uml][a_uml]r[a_uml]", "p[a_uml][a_uml]sy",
       "armeija", "ketju", "liikennett[a_uml]", "potkia", "analyysi",
       "lentokentt[a_uml]", "aika", "loma", "filosofia", "pallo", "rinnassa",
       "Kiitos", "paikka", "vuori", "mainonta", "punainen", "mennyt",
       "vuokrata", "palata", "kiertue", "talo", "rakentaminen", "net",
       "syntyper[a_uml]inen", "sota", "kuva", "maksu", "spray",
       "k[a_uml]ytt[a_uml]j[a_uml]", "lika", "ammuttu", "teht[a_uml]v[a_uml]",
       "keppi", "yst[a_uml]v[a_uml]", "ohjelmisto", "edist[a_uml]minen",
       "vuorovaikutusta", "surround", "lohko", "tarkoitus", "harjoitella",
       "konflikti", "rutiini", "vaatimus", "bonus", "reik[a_uml]", "osavaltio",
       "juniori", "makea", "saalis", "repi[a_uml]", "taita",
       "sein[a_uml][a_uml]n", "toimittaja", "el[a_uml]m[a_uml][a_uml]",
       "asema", "punta", "kunnioittaminen", "kylpyhuone", "takki",
       "k[a_uml]sikirjoitus", "job", "opettaa", "syntym[a_uml]st[a_uml]",
       "n[a_uml]kym[a_uml]", "ratkaista", "teema", "ty[o_uml]ntekij[a_uml]",
       "ep[a_uml]ill[a_uml]", "markkinoida", "koulutus", "palvella", "toipua",
       "s[a_uml]vy", "vahingoittaa", "neiti", "liitto",
       "ymm[a_uml]rt[a_uml]minen", "lehm[a_uml]", "joki", "yhdistys",
       "k[a_uml]site", "koulutusta", "resepti", "suhdetta", "varata",
       "masennus", "todiste", "hiukset", "tuloja", "riippumaton", "hissi",
       "toimeksianto", "v[a_uml]liaikaista", "m[a_uml][a_uml]r[a_uml]",
       "menetys", "reuna", "seurata", "tarkista", "k[o_uml]ysi", "arvio",
       "saastuminen", "vakaa", "viesti", "toimitus",
       "n[a_uml]k[o_uml]kulmasta", "peili", "avustaja", "edustaja",
       "todistaja", "luonto", "tuomari", "hedelm[a_uml][a_uml]", "k[a_uml]rki",
       "paholainen", "kaupunki", "h[a_uml]t[a_uml]tilanteessa", "ylempi",
       "pudota", "pysy[a_uml]", "ihmisen", "kaula", "puhuja", "verkkoon",
       "laulaa", "vastustaa", "liigassa", "matka", "allekirjoitus", "lakimies",
       "merkitys", "kaasua", "valinta", "insin[o_uml][o_uml]ri", "menestys",
       "osa", "ulkoinen", "ty[o_uml]ntekij[a_uml]", "yksinkertainen",
       "nelj[a_uml]nnes", "opiskelija", "syd[a_uml]n", "sy[o_uml]tt[o_uml]",
       "paheksuntaa", "siirt[a_uml][a_uml]", "karkea", "nainen", "ruoho",
       "yhteis[o_uml][a_uml]", "autotalli", "nuoriso", "standardi", "hame",
       "lupaus", "sokea", "televisio", "sairaus", "komissio", "positiivinen",
       "energiaa", "rauhallinen", "l[a_uml]sn[a_uml]olo",
       "viritt[a_uml][a_uml]", "perusteella", "etusija", "p[a_uml][a_uml]",
       "yleinen", "leikata", "jonnekin", "esittely", "nykyinen", "ajatteli",
       "vallankumous", "vaivaa", "hallita", "toteuttaa", "tasavalta", "kerros",
       "periaate", "muukalainen", "olkap[a_uml][a_uml]", "luokka",
       "painiketta", "tennis", "valvoa", "kokoelma", "tili",
       "rekister[o_uml]idy", "k[a_uml]sine", "jakaa", "professori", "tuoli",
       "etusijalla", "yhdist[a_uml][a_uml]", "rauhaa", "laajennus",
       "ehk[a_uml]", "ilta", "kehys", "sisko", "aalto", "koodi", "sovellus",
       "hiiri", "ottelu", "laskuri", "pullo", "puoli", "poski", "resoluutio",
       "takaisin", "tietoa", "tehd[a_uml]", "keskustelua", "ruuvi", "pituus",
       "onnettomuus", "taistelu", "pukeutua", "polvi", "loki", "paketti", "se",
       "k[a_uml][a_uml]nn[a_uml]", "kuulo", "sanomalehti", "kerros",
       "varallisuus", "profiili", "mielikuvitus", "vastaus", "viikonloppu",
       "opettaja", "ulkon[a_uml]k[o_uml]", "tavata", "py[o_uml]r[a_uml]",
       "nousta", "vy[o_uml]", "kaatua", "kulho", "vastaava", "tukea", "kuva",
       "runo", "riski[a_uml]", "j[a_uml]nnityst[a_uml]", "kaukana", "sihteeri",
       "julkinen", "tuottaa", "kone", "n[a_uml]ytt[o_uml]", "rahaa", "hiekka",
       "tilanne", "booli", "asiakas", "otsikko", "ravista", "kiinnitys",
       "vaihtoehto", "m[a_uml][a_uml]r[a_uml]", "pop", "ikkuna", "laajuus", "ei mit[a_uml][a_uml]n", "kokea", "lausunto", "l[a_uml]ht[o_uml][a_uml]",
       "tanssi", "osoitus", "poika", "materiaalia", "b[a_uml]ndi", "johtaja",
       "aurinko", "kaunis", "lihas", "maanviljelij[a_uml]", "lajike", "rasvaa",
       "kahva", "johtaja", "mahdollisuus", "kalenteri", "ulkopuolella",
       "vauhti", "kylpy", "kalastaa", "seurauksena", "laittaa", "omistaja",
       "menn[a_uml]", "l[a_uml][a_uml]k[a_uml]ri", "tiedot", "jakaa",
       "satuttaa", "suojaa", "ura", "rahoitusta", "pakottaa", "golf", "roskat",
       "n[a_uml]k[o_uml]kohta", "lapsi", "ruokaa", "boot", "maitoa", "vastata",
       "tavoite", "todellisuutta", "raaka", "rengas", "ostoskeskus", "yksi",
       "vaikutus", "alueella", "uutiset", "kansainv[a_uml]linen", "sarja",
       "tehd[a_uml]", "[a_uml]iti", "suojaa", "lakko", "lainata", "kuukausi",
       "istuin", "mit[a_uml][a_uml]n", "viihde", "tuttua", "vihje", "vuosi",
       "iloinen", "supermarket", "luonnollinen", "jumala", "maksaa",
       "keskustelu", "solmio", "pilata", "mukavuus", "maata", "myrsky",
       "prosentteina", "apua", "budjetti", "vahvuus", "alku", "nukkua", "muu",
       "nuori", "yksikk[o_uml]", "t[a_uml]ytt[a_uml][a_uml]", "tallentaa",
       "halu", "piilottaa", "arvo", "kuppi", "huolto", "sairaanhoitaja",
       "toiminto", "torni", "rooli", "luokkaa", "kamera", "tietokanta",
       "paniikki", "kansakunta", "kori", "j[a_uml][a_uml]t[a_uml]", "taide",
       "henki", "kartoittaa", "vaihtaa", "palautetta", "lausunto", "maine",
       "haku", "mets[a_uml]st[a_uml][a_uml]", "k[a_uml]ytt[a_uml][a_uml]",
       "ilke[a_uml]", "huomautus", "uros", "piha", "vuosittain", "kaulus",
       "p[a_uml]iv[a_uml]m[a_uml][a_uml]r[a_uml]", "alusta", "kasvi", "onni",
       "intohimo", "yst[a_uml]vyys", "levit[a_uml]n", "sy[o_uml]p[a_uml]",
       "lippu", "asenne", "saari", "aktiivinen", "esine", "palvelua", "ostaja",
       "purra", "kortti", "kasvot", "pihvi", "ehdotus",
       "k[a_uml]rsiv[a_uml]llinen", "l[a_uml]mp[o_uml][a_uml]",
       "s[a_uml][a_uml]nt[o_uml]", "asukas", "laaja", "politiikka",
       "l[a_uml]nteen", "veitsi", "asiantuntija", "tytt[o_uml]", "design",
       "suolaa", "baseball", "napata", "tarkastus", "serkku", "pari", "lehti",
       "kokki", "riippuvainen", "turvallisuus", "kana", "versio", "valuutta",
       "tikapuut", "j[a_uml]rjestelm[a_uml]", "keitti[o_uml]",
       "ty[o_uml]llisyytt[a_uml]", "paikallinen", "Huomio", "johtaja",
       "tosiasia", "kansi", "surullinen", "vartija", "suhteellinen",
       "l[a_uml][a_uml]ni", "korko", "lounas", "ohjelmoida", "aloite",
       "vaihde", "silta", "rinta", "puhua", "ruokalaji", "takuu", "olut",
       "ajoneuvoa", "vastaanotto", "nainen", "aine", "kopioida", "luento",
       "etu", "pys[a_uml]k[o_uml]id[a_uml]", "kylm[a_uml]", "kuolema",
       "sekoita", "pid[a_uml]", "mittakaavassa", "huomenna", "verta",
       "pyyt[a_uml][a_uml]", "vihre[a_uml]", "ev[a_uml]steen", "kirkko",
       "nauhat", "ikuisesti", "pidemm[a_uml]lle", "velkaa", "puuttua",
       "pest[a_uml]", "j[a_uml]lkeen", "tuntea", "maksimi", "alalla", "meri",
       "omaisuutta", "taloustiede", "valikosta", "penkki",
       "yritt[a_uml][a_uml]", "kieli", "aloita", "soittaa", "kiinte[a_uml]",
       "osoite", "tulot", "jalka", "vanhempi", "hunaja", "muutama", "seos",
       "k[a_uml]teist[a_uml]", "p[a_uml]ivitt[a_uml]istavarakauppa", "linkki",
       "kartta", "muodossa", "tekij[a_uml]", "potti", "malli", "kirjailija",
       "maatilalla", "talvi", "taito", "miss[a_uml]",
       "syntym[a_uml]p[a_uml]iv[a_uml]", "politiikkaa", "vapauttaa",
       "aviomies", "lab", "kiire", "postia", "laitteet", "pesuallas", "pari",
       "kuljettaja", "huomioon", "nahka", "ihoa", "sininen", "vene",
       "myyntiin", "tiili", "kaksi", "sy[o_uml]tt[a_uml][a_uml]",
       "neli[o_uml]", "piste", "kiire", "unelma", "sijainti",
       "iltap[a_uml]iv[a_uml]ll[a_uml]", "valmistaja", "ohjata", "tilaisuus",
       "ongelmia", "esittely", "neuvoja", "veto", "sy[o_uml]d[a_uml]",
       "tappaa", "luokkaan", "tavalla", "toimisto", "kiinteist[o_uml]",
       "ylpeys", "tietoisuutta", "lipsahdus", "crack", "asiakas", "naulata",
       "ampua", "j[a_uml]senyys", "pehme[a_uml]", "ket[a_uml][a_uml]n", "web",
       "virallinen", "yksil[o_uml]llinen", "pizza", "kiinnostaa", "laukku",
       "loitsu", "ammatti", "kuningatar", "sopimus", "resurssi", "laiva",
       "kaveri", "suklaa", "liitos", "muodollinen", "yl[a_uml]kerrassa",
       "auto", "lomakohde", "ulkomailla", "j[a_uml]lleenmyyj[a_uml]",
       "liittolainen", "sormi", "leikkaus", "kommentti", "joukkue",
       "yksityiskohta", "hullu", "polku", "tarina", "ensimm[a_uml]inen",
       "k[a_uml]sivarsi", "radio", "kysynt[a_uml]", "sinkku",
       "piirt[a_uml][a_uml]", "keltainen", "kilpailu", "pala", "lainata",
       "Ved[a_uml]", "kaupallinen", "paita", "panos", "kerma", "kanava",
       "puku", "kurinalaisuutta", "ohje", "konsertti", "puhetta", "matala",
       "tehokas", "ripustaa", "naarmuuntua", "teollisuus", "aamiainen",
       "antaa", "liitty[a_uml]", "metalli", "makuuhuone", "minuutti", "tuote",
       "lev[a_uml]t[a_uml]", "l[a_uml]mp[o_uml]tila", "monet", "antaa",
       "argumentti", "painaa", "violetti", "nauraa", "terveys", "luotto",
       "investointi", "myyd[a_uml]", "asetusta", "oppitunti", "muna",
       "keskell[a_uml]", "avioliitto", "taso", "todisteita", "lause",
       "rakkaus", "itse", "hy[o_uml]ty[a_uml]", "opastusta", "vaikuttaa",
       "sin[a_uml]", "is[a_uml]", "ahdistusta", "erityist[a_uml]",
       "poikayst[a_uml]v[a_uml]", "testata", "tyhj[a_uml]", "maksu", "keitto",
       "velvollisuus", "vastata", "hymy", "syv[a_uml]", "valitus",
       "lis[a_uml]ys", "arvostelu", "laatikko", "pyyhe", "alaik[a_uml]inen",
       "hauskaa", "maaper[a_uml][a_uml]", "antaa", "savuke", "netti", "saada",
       "kertoa", "sis[a_uml][a_uml]ntulo", "varaa", "tapaus", "perhe",
       "kielt[a_uml]yty[a_uml]", "haara", "voi", "kyn[a_uml]", "isois[a_uml]",
       "vakio", "s[a_uml]ili[o_uml]", "set[a_uml]", "ilmasto", "maahan",
       "[a_uml][a_uml]nenvoimakkuutta", "viestint[a_uml][a_uml]", "kiltti",
       "runoilija", "lapsi", "n[a_uml]ytt[o_uml]", "minun", "lopettaa",
       "geeni", "puute", "hyv[a_uml]ntekev[a_uml]isyys", "muisti", "hammas",
       "pelko", "mainita", "markkinointi", "paljastaa", "syy", "tuomioistuin",
       "kausi", "vapautta", "maa", "urheilu", "yleis[o_uml]",
       "luokkahuoneessa", "lakia", "koukku", "voittaa", "kantaa",
       "silm[a_uml]", "haju", "jakelu", "tutkimusta", "maassa", "uskaltaa",
       "toivoa", "kun", "venytt[a_uml][a_uml]", "kirjasto", "jos", "viive",
       "college", "muovi", "kirja", "esitt[a_uml][a_uml]",
       "k[a_uml]ytt[a_uml][a_uml]", "huoli", "mestari", "tavoite", "taloutta",
       "maaliskuuta", "vaaleissa", "heijastus", "keskiy[o_uml]ll[a_uml]",
       "liukum[a_uml]ki", "inflaatio", "toimintaa", "haaste", "kitara",
       "rannikolla", "omena", "kampanja", "ala", "takki", "j[a_uml]rke[a_uml]",
       "tapa", "visuaalinen", "poistaa", "s[a_uml][a_uml]", "roskakoriin",
       "kaapeli", "katumusta", "kaveri", "ranta", "historioitsija",
       "rohkeutta", "my[o_uml]t[a_uml]tuntoa", "kuorma-auto",
       "j[a_uml]nnityst[a_uml]", "lupa", "nen[a_uml]", "vuode", "poika",
       "henkil[o_uml]", "pohja", "liha", "tavallista", "ilmaa", "kokous",
       "arvoinen", "peli", "itsen[a_uml]isyys", "fyysist[a_uml]", "lyhyt",
       "pelata", "nostaa", "hallitus", "h[a_uml]n", "avain", "kirjoittaminen",
       "valita", "komento", "juhliin", "eilen", "kev[a_uml]t", "ehdokas",
       "fysiikka", "yliopisto", "koskea", "kehityst[a_uml]", "muuttaa",
       "merkkijono", "tavoite", "esimerkki", "huone", "katkera", "lintu",
       "jalkapallo", "normaali", "jakaa", "vaikutelma", "puu", "pitk[a_uml]",
       "merkitys", "varastossa", "korkki", "johtajuutta", "media",
       "kunnianhimoa", "kalastus", "essee", "salaatti", "korjaus",
       "t[a_uml]n[a_uml][a_uml]n", "suunnittelija", "y[o_uml]", "pankki",
       "piirustus", "v[a_uml]ist[a_uml]m[a_uml]t[o_uml]n", "vaihe", "laaja",
       "siru", "suututtaa", "kytkin", "itke[a_uml]", "kierre",
       "persoonallisuus", "yritt[a_uml][a_uml]", "varastointi", "oleminen",
       "valmistelu", "bat", "valinta", "valkoinen", "teknologiaa", "sopimus",
       "puolella", "osio", "asemalle", "asti", "rakenne", "kieli", "maku",
       "totuus", "vaikeus", "ryhm[a_uml]", "rajoittaa", "p[a_uml][a_uml]",
       "liikkua", "tunne", "valoa", "esimerkki", "teht[a_uml]v[a_uml][a_uml]",
       "saattaa", "odota", "py[o_uml]r[a_uml]", "kauppa", "is[a_uml]nt[a_uml]",
       "klassinen", "vaihtoehto", "aiheuttaa", "agentti", "koostuvat",
       "taulukko", "lentoyhti[o_uml]", "teksti", "allas",
       "k[a_uml]sity[o_uml]", "alue", "polttoainetta", "ty[o_uml]kalu",
       "kumppani", "ladata", "sis[a_uml][a_uml]nk[a_uml]ynti", "tallettaa",
       "vihaa", "artikla", "video", "kes[a_uml]", "ominaisuus",
       "[a_uml][a_uml]rimm[a_uml]inen", "mobiili", "sairaala", "lento",
       "syksy", "el[a_uml]kett[a_uml]", "piano", "ep[a_uml]onnistua", "tulos",
       "hieroa", "aukko", "j[a_uml]rjestelm[a_uml]", "raportti", "ime[a_uml]",
       "tavallinen", "tuuli", "hermo", "kysy[a_uml]", "loistaa", "huomautus",
       "linja", "[a_uml]iti", "k[a_uml]sitys", "veli", "viite", "mutka",
       "veloittaa", "hoitaa", "temppu", "termi", "kotiteht[a_uml]v[a_uml]t",
       "leipoa", "tarjous", "status", "hanke", "strategia", "oranssi", "anna",
       "innostusta", "vanhempi", "keskitty[a_uml]", "laite", "matkustaa",
       "runous", "liiketoimintaa", "yhteiskuntaan", "suudella", "loppu",
       "kasvis", "k[a_uml]ytt[a_uml][a_uml]", "ajoittaa", "tunnin", "rohkea",
       "keskitty[a_uml]", "k[a_uml]sitell[a_uml]", "elokuva", "laitonta",
       "yleist[a_uml]", "kahvia", "ilmoitus", "valtatie", "kemia",
       "psykologia", "vuokraus", "kello", "konferenssi", "helpotus", "show",
       "siisti", "hauska", "paino", "laatu", "klubi", "tyt[a_uml]r",
       "vy[o_uml]hyke", "kosketa", "t[a_uml]n[a_uml] iltana",
       "j[a_uml]rkytt[a_uml][a_uml]", "polttaa", "tekosyy", "nimi", "kyselyyn",
       "maisema", "etuk[a_uml]teen", "tyytyv[a_uml]isyys",
       "leip[a_uml][a_uml]", "katastrofi", "kohde", "hattu", "ennen",
       "ostoksilla", "vierailla", "it[a_uml][a_uml]n", "kuva", "kotiin",
       "idea", "is[a_uml]", "vertailu", "kissa", "putki", "voittaja", "laskea",
       "j[a_uml]rvi", "taistella", "palkinto", "perusta", "koira",
       "pit[a_uml][a_uml]", "ihanteellinen", "tuuletin", "kamppailua",
       "huippu", "turvallisuutta", "ratkaisu", "helvetti",
       "johtop[a_uml][a_uml]t[o_uml]s", "v[a_uml]est[o_uml]st[a_uml]",
       "rasitusta", "h[a_uml]lytys", "mittaus", "toinen", "kouluttaa", "rotu",
       "er[a_uml][a_uml]ntyy", "vakuutus", "pomo", "puu", "seurata", "sairas",
       "tietenkin", "vet[a_uml][a_uml]", "nimitt[a_uml]minen", "viipale",
       "edelleen", "hoito", "k[a_uml]rsiv[a_uml]llisyytt[a_uml]", "rikas",
       "paeta", "tunne", "kuninkaallinen", "naaras", "lapsuus", "hallitus",
       "kuva", "tahtoa", "sukka", "iso", "portti", "[o_uml]ljy",
       "ylitt[a_uml][a_uml]", "pin", "parantaminen", "mestaruus",
       "typer[a_uml]", "auttaa", "taivas", "piki", "mies", "timantti",
       "useimmat", "siirtyminen", "ty[o_uml]t[a_uml]", "tiede", "komitea",
       "hetki", "korjata", "opetusta", "kaivaa", "asiantuntija",
       "monimutkainen", "opas", "ihmiset", "kuollut", "[a_uml][a_uml]ni",
       "alkuper[a_uml]inen", "tauko", "aihe", "tiedot", "tutkinnon",
       "lukeminen", "tallennus", "nippu", "tavoittaa", "tuomio", "valehdella",
       "s[a_uml][a_uml]nn[o_uml]llinen", "sarja", "maalaus", "tila", "lista",
       "pelaaja", "karhu", "pohjoinen", "ihme", "matto", "raskas", "upseeri",
       "negatiivinen", "kello", "ainutlaatuinen", "vauva", "kipu", "oletus",
       "levy", "rauta", "laskuttaa", "laatikko", "Katso", "kaksinkertainen",
       "virhe", "loppuun", "tulevaisuutta", "loistava", "ota yhteytt[a_uml]",
       "matematiikka", "riisi", "l[a_uml]hte[a_uml]", "ravintola", "alennus",
       "seksi[a_uml]", "virus", "bitti", "luottaa", "tapahtuma",
       "k[a_uml]ytt[a_uml][a_uml]", "mehu", "ep[a_uml]onnistuminen", "bugi",
       "yhteydess[a_uml]", "muta", "koko", "k[a_uml][a_uml]ri", "tarkoitus",
       "luonnos", "paine", "kakku", "tumma", "selitys", "tilaa", "kulma",
       "sana", "tehokkuutta", "hallinta", "tapa", "t[a_uml]hti",
       "mahdollisuus", "l[o_uml]yt[a_uml]minen", "kuljetus", "seisomaan",
       "kritiikki[a_uml]", "virtaus", "ovi", "vahinkoa", "hy[o_uml]nteinen",
       "yll[a_uml]tys", "huoneisto" >>

\* the draws of random.sample the model follows: the requests of at most
\* MaxKeywords keywords, drawn among the first MaxDrawPosition positions
MaxKeywords == 2
MaxDrawPosition == 60

DrawPositions ==
    1..(IF MaxDrawPosition < Len(WORD_LIST) THEN MaxDrawPosition
        ELSE Len(WORD_LIST))

\* random.sample(population, k) chooses k different positions of the
\* population: the sequences of n different positions
RECURSIVE Draws(_)
Draws(n) ==
    IF n = 0 THEN {<<>>}
    ELSE UNION {{Append(d, i) : i \in DrawPositions \ Range(d)} :
                   d \in Draws(n - 1)}

\* the arguments generate_keywords is called with
Requests == (-1..MaxKeywords) \cup {Len(WORD_LIST) + 1}

\* return random.sample(WORD_LIST, k=num_keywords); random.sample raises
\* ValueError when k is negative or larger than the population
GenerateKeywords ==
    /\ kw_pc = "idle"
    /\ \E n \in Requests :
           /\ num_keywords' = n
           /\ IF n < 0 \/ n > Len(WORD_LIST)
              THEN kw_pc' = "raised" /\ keywords' = <<>>
              ELSE \E d \in Draws(n) :
                       /\ keywords' = [i \in 1..n |-> WORD_LIST[d[i]]]
                       /\ kw_pc' = "returned"
    /\ UNCHANGED splitVars
    /\ UNCHANGED nltkVars

InitKeywords ==
    /\ text = <<>>
    /\ pc = "call"
    /\ work = <<>>
    /\ sentences = <<>>
    /\ origins = <<>>
    /\ num_keywords = 0
    /\ kw_pc = "idle"
    /\ keywords = <<>>
    /\ nltk = <<>>
    /\ tokenizer = <<>>

NextKeywords == GenerateKeywords

SpecKeywords == InitKeywords /\ [][NextKeywords]_vars

\* C10: generate_keywords(n) returns n pairwise different members of
\* WORD_LIST when 0 <= n <= len(WORD_LIST), and raises when n is larger
\* than the list.
KeywordsDistinct ==
    /\ kw_pc = "returned"
           => /\ Len(keywords) = num_keywords
              /\ \A i, j \in 1..Len(keywords) :
                     i # j => keywords[i] # keywords[j]
              /\ \A i \in 1..Len(keywords) : keywords[i] \in Range(WORD_LIST)
    /\ (kw_pc # "idle" /\ num_keywords > Len(WORD_LIST)) => kw_pc = "raised"

-----------------------------------------------------------------------------
(* download_nltk_resources *)

MaxVersionPart == 9

\* a version is its release: major, minor, micro
Versions ==
    {<<a, b, c>> : a \in 0..MaxVersionPart, b \in 0..MaxVersionPart,
                   c \in 0..MaxVersionPart}

NLTK_MIN_VERSION == <<3, 9, 1>>

\* version.parse(a) < version.parse(b): releases compare part by part
VersionLess(a, b) ==
    \/ a[1] < b[1]
    \/ a[1] = b[1] /\ a[2] < b[2]
    \/ a[1] = b[1] /\ a[2] = b[2] /\ a[3] < b[3]

\* nltk_version = pkg_resources.get_distribution("nltk").version
GetVersion ==
    /\ nltk.pc = "start"
    /\ nltk' = [nltk EXCEPT !.nltk_version = nltk.installed,
                            !.pc = "assert"]
    /\ UNCHANGED <<splitVars, kwVars, tokenizer>>

\* assert version.parse(nltk_version) >= version.parse(NLTK_MIN_VERSION):
\* an assert statement is executed only when __debug__ is true; an
\* interpreter started with -O or PYTHONOPTIMIZE compiles it to nothing
AssertVersion ==
    /\ nltk.pc = "assert"
    /\ nltk' = [nltk EXCEPT !.pc =
                   IF nltk.debug /\ VersionLess(nltk.nltk_version,
                                                NLTK_MIN_VERSION)
                   THEN "raised" ELSE "try"]
    /\ UNCHANGED <<splitVars, kwVars, tokenizer>>

\* try: nltk.data.find("tokenizers/punkt_tab"), which raises LookupError
\* when the resource is not installed
Find ==
    /\ nltk.pc = "try"
    /\ nltk' = [nltk EXCEPT !.log = Append(nltk.log, "find"),
                            !.pc = IF nltk.punkt_tab THEN "done"
                                   ELSE "except"]
    /\ UNCHANGED <<splitVars, kwVars, tokenizer>>

\* except LookupError: nltk.download("punkt_tab"); the download installs
\* the resource or fails and returns False
Download ==
    /\ nltk.pc = "except"
    /\ \E ok \in BOOLEAN :
           nltk' = [nltk EXCEPT !.log = Append(nltk.log, "download"),
                                !.punkt_tab = ok,
                                !.pc = "done"]
    /\ UNCHANGED <<splitVars, kwVars, tokenizer>>

download_nltk_resources == GetVersion \/ AssertVersion \/ Find \/ Download

\* the interpreters and installations the module is imported in
InitNltk ==
    /\ text = <<>>
    /\ pc = "call"
    /\ work = <<>>
    /\ sentences = <<>>
    /\ origins = <<>>
    /\ num_keywords = 0
    /\ kw_pc = "idle"
    /\ keywords = <<>>
    /\ tokenizer = <<>>
    /\ nltk \in [debug : BOOLEAN, installed : Versions,
                 punkt_tab : BOOLEAN, nltk_version : {<<>>},
                 log : {<<>>}, pc : {"start"}]

NextNltk == download_nltk_resources

SpecNltk == InitNltk /\ [][NextNltk]_vars

\* C11: download_nltk_resources raises whenever the installed nltk is
\* older than NLTK_MIN_VERSION, and the resource lookup and the download
\* happen only with a version that is not older: nothing is looked up or
\* downloaded with an older version.
FailFast ==
    VersionLess(nltk.installed, NLTK_MIN_VERSION)
        => /\ nltk.log = <<>>
           /\ nltk.pc # "done"

-----------------------------------------------------------------------------
(* Closing quotes *)

MaxQuoteTokens == 4

QuoteTokens ==
    { <<"a">>, <<".">>, <<"!">>, <<"?">>, <<"\"">>, <<"rdquo">>, <<" ">> }

InitQuote == InitSplit(Inputs(QuoteTokens, MaxQuoteTokens))

SpecQuote == InitQuote /\ [][NextSplit]_vars

QUOTES == {"\"", "rdquo"}

\* the terminators that stand between a letter and a closing quote
QuotedTerminators ==
    {i \in 2..Len(text) :
        /\ text[i] \in TERMINATORS
        /\ text[i - 1] \in _ALPHABETS
        /\ CharAt(text, i + 1) \in QUOTES}

\* C12: for both quote styles and each of '.', '!' and '?', a terminator
\* right before a closing quote is moved behind the quote before the
\* boundaries are marked: the quote is returned in the sentence of the
\* quoted text, and the terminator with it.
QuoteStaysWithText ==
    (pc = "done" /\ MarkerFree(text))
        => \A i \in QuotedTerminators :
               SameSentence(i - 1, i + 1) /\ SameSentence(i, i + 1)

-----------------------------------------------------------------------------
(* Suffix words before a sentence starter *)

MaxSuffixRuleTokens == 4

SuffixRuleTokens ==
    { <<" ", "O", "y", ".">>, <<" ", "C", "o", ".">>, <<" ", "S", "e">>,
      <<" ", "H", "e", "r", "r", "a">>, <<" ">>, <<".">>, <<"a">>,
      <<"\"">> }

InitSuffixRule == InitSplit(Inputs(SuffixRuleTokens, MaxSuffixRuleTokens))

SpecSuffixRule == InitSuffixRule /\ [][NextSplit]_vars

\* the periods of the input that stand right after a listed suffix word
\* that has a space before it
SuffixPeriods ==
    {i \in 1..Len(text) :
        /\ text[i] = "."
        /\ \E k \in 1..Len(_SUFFIXES) :
               /\ Occurs(_SUFFIXES[k], text, i - Len(_SUFFIXES[k]))
               /\ CharAt(text, i - Len(_SUFFIXES[k]) - 1) = " "}

\* C13: in a marker-free text the period after a listed suffix word that
\* has a space before it makes a sentence boundary when a space and a
\* listed sentence starter follow it: the suffix word and the starter are
\* returned in different sentences.  (Stated for the starters on which
\* the word and the pattern of _STARTERS agree: a whole word that the
\* pattern matches.)
SuffixRule ==
    (pc = "done" /\ MarkerFree(text))
        => \A i \in SuffixPeriods :
               (CharAt(text, i + 1) = " " /\ StarterWordAt(i + 2)
                    /\ StarterAt(i + 2))
                   => ~SameSentence(i - 1, i + 2)

-----------------------------------------------------------------------------
(* The pieces between the boundary markers *)

\* the positions of the boundary markers in the working text
Stops == {p \in 1..Len(work) : Occurs(STOP, work, p)}

\* the number of boundary markers up to position p
StopsUpTo(p) == Cardinality({q \in Stops : q <= p})

\* the position after the last boundary marker before position p
PieceStart(p) ==
    IF \E q \in Stops : q < p
    THEN (CHOOSE q \in Stops : q < p /\ \A r \in Stops : r < p => r <= q)
             + Len(STOP)
    ELSE 1

\* the piece of the working text that ends right before position p
PieceBefore(p) == SubSeq(work, PieceStart(p), p - 1)

\* the piece after the last boundary marker
LastPiece == PieceBefore(Len(work) + 1)

\* C14: only a trailing empty piece is dropped: every piece that ends at
\* a boundary marker is returned trimmed at its position, empty or not,
\* and the piece after the last marker is returned when it is not
\* whitespace only; the number of sentences is the number of markers in
\* the working text, plus one when non-whitespace text follows the last.
OnlyTrailingEmptyDropped ==
    pc = "done"
        => /\ Len(sentences)
                 = Cardinality(Stops) + (IF Blank(LastPiece) THEN 0 ELSE 1)
           /\ \A p \in Stops :
                  sentences[StopsUpTo(p)] = Trimmed(PieceBefore(p))
           /\ ~Blank(LastPiece)
                  => sentences[Len(sentences)] = Trimmed(LastPiece)

\* an empty piece before the last one was kept
OnlyTrailingEmptyDroppedWitness ==
    /\ pc = "done"
    /\ \E k \in 1..(Len(sentences) - 1) : sentences[k] = <<>>
    /\ \E p \in Stops : Blank(PieceBefore(p))

-----------------------------------------------------------------------------
(* count_sentences and the cached tokenizer *)

MaxThreads == 2
MaxCalls == 2

Threads == 1..MaxThreads

\* no tokenizer: the cache is empty, or the local variable is not yet set
NoTokenizer == 0

\* the thread t of the tokenizer state, with the fields f changed
SetThread(t, f) ==
    [tokenizer.th EXCEPT ![t] = [x \in DOMAIN @ |->
                                    IF x \in DOMAIN f THEN f[x] ELSE @[x]]]

\* a thread calls count_sentences(text), which calls
\* _get_sentence_tokenizer()
CallCountSentences(t) ==
    /\ tokenizer.th[t].pc = "idle"
    /\ tokenizer.th[t].calls < MaxCalls
    /\ tokenizer' = [tokenizer EXCEPT !.th = SetThread(t,
                        [pc |-> "lookup", tok |-> NoTokenizer,
                         calls |-> tokenizer.th[t].calls + 1])]
    /\ UNCHANGED <<splitVars, kwVars, nltk>>

\* the wrapper of functools.lru_cache(maxsize=None) looks the key up in
\* its dictionary: a hit returns the cached object, a miss goes on to call
\* the wrapped function
CacheLookup(t) ==
    /\ tokenizer.th[t].pc = "lookup"
    /\ tokenizer' = [tokenizer EXCEPT !.th =
           IF tokenizer.cache # NoTokenizer
           THEN SetThread(t, [pc |-> "tokenize", tok |-> tokenizer.cache])
           ELSE SetThread(t, [pc |-> "load"])]
    /\ UNCHANGED <<splitVars, kwVars, nltk>>

\* return nltk.data.load("nltk:tokenizers/punkt/english.pickle"): a new
\* tokenizer object, or LookupError when the resource is not installed
\* (an exception is not cached and ends the call)
Load(t) ==
    /\ tokenizer.th[t].pc = "load"
    /\ \E ok \in BOOLEAN :
           tokenizer' =
               IF ok
               THEN [tokenizer EXCEPT
                        !.loads = tokenizer.loads + 1,
                        !.th = SetThread(t, [pc |-> "store",
                                             tok |-> tokenizer.loads + 1])]
               ELSE [tokenizer EXCEPT !.th = SetThread(t, [pc |-> "idle"])]
    /\ UNCHANGED <<splitVars, kwVars, nltk>>

\* the wrapper stores the result under the key and returns it
CacheStore(t) ==
    /\ tokenizer.th[t].pc = "store"
    /\ tokenizer' = [tokenizer EXCEPT
                        !.cache = tokenizer.th[t].tok,
                        !.th = SetThread(t, [pc |-> "tokenize"])]
    /\ UNCHANGED <<splitVars, kwVars, nltk>>

\* tokenized_sentences = tokenizer.tokenize(text); return len(...)
Tokenize(t) ==
    /\ tokenizer.th[t].pc = "tokenize"
    /\ tokenizer' = [tokenizer EXCEPT
                        !.used = tokenizer.used \cup {tokenizer.th[t].tok},
                        !.th = SetThread(t, [pc |-> "idle"])]
    /\ UNCHANGED <<splitVars, kwVars, nltk>>

InitTokenizer ==
    /\ text = <<>>
    /\ pc = "call"
    /\ work = <<>>
    /\ sentences = <<>>
    /\ origins = <<>>
    /\ num_keywords = 0
    /\ kw_pc = "idle"
    /\ keywords = <<>>
    /\ nltk = <<>>
    /\ tokenizer = [cache |-> NoTokenizer, loads |-> 0, used |-> {},
                    th |-> [t \in Threads |->
                               [pc |-> "idle", tok |-> NoTokenizer,
                                calls |-> 0]]]

NextTokenizer ==
    \E t \in Threads :
        \/ CallCountSentences(t)
        \/ CacheLookup(t)
        \/ Load(t)
        \/ CacheStore(t)
        \/ Tokenize(t)

SpecTokenizer == InitTokenizer /\ [][NextTokenizer]_vars

\* C15: over any calls of count_sentences, overlapping first calls on
\* several threads included, the tokenizer is loaded at most once, every
\* call tokenizes with that one object, and nothing is loaded before the
\* first call.
SingletonTokenizer ==
    /\ tokenizer.loads <= 1
    /\ Cardinality(tokenizer.used) <= 1
    /\ tokenizer.loads > 0
           => \E t \in Threads : tokenizer.th[t].calls > 0

=============================================================================
